---- MODULE Spec2Model ----
(* Model of the customer-support chat backend: the Zod request schemas,      *)
(* the SQLite-backed DatabaseService, the LLMService reply generator and     *)
(* the two Express handlers POST /chat/message and GET /chat/history/:id.    *)
EXTENDS Integers, Sequences, FiniteSets, TLC

(***************************************************************************)
(* Bounds of the model.                                                    *)
(***************************************************************************)
\* number of chat-turn requests the server receives
MaxTurns == 2
\* largest value of the wall clock
MaxTime == 1
\* number of message ids drawn up to which createMessage is called for itself
MaxStoreIds == 3

Turns == 1..MaxTurns

(***************************************************************************)
(* Program constants.                                                      *)
(***************************************************************************)
\* .min(1, ...) of the message rule
MinMessageLength == 1
\* .max(2000, ...) of the message rule
MaxMessageLength == 2000
\* db.getConversationHistory(sessionId, 10)
HistoryLimit == 10
\* history.slice(-10) of buildConversationContext
ContextLimit == 10

(***************************************************************************)
(* Strings.  A string is kept as its leading whitespace run, its body (the *)
(* part between the first and the last non-whitespace character, named by  *)
(* `tag' and of `len' characters) and its trailing whitespace run.  A      *)
(* string without any non-whitespace character has len = 0 and keeps its   *)
(* whole whitespace in `lead'.                                             *)
(***************************************************************************)
Str(tag, lead, len, trail) ==
    [tag |-> tag, lead |-> lead, len |-> len, trail |-> trail]

Lit(tag, len) == Str(tag, 0, len, 0)

EmptyString == Str("", 0, 0, 0)

\* String.prototype.length
Length(s) == s.lead + s.len + s.trail

\* String.prototype.trim
Trim(s) == IF s.len = 0 THEN EmptyString ELSE Str(s.tag, 0, s.len, 0)

\* the fixed reply texts of the handler and of LLMService
UnavailableReply == Lit("Sorry, the AI service is currently unavailable.", 47)
DefaultApology == Lit("Sorry, I encountered an error. Please try again.", 48)
InvalidKeyReply ==
    Lit("Invalid API key. Please check your Gemini API configuration.", 60)
RateLimitReply == Lit("Rate limit reached. Please try again in a moment.", 49)
TimeoutReply == Lit("Request timeout. Please try again.", 34)
GenericErrorReply ==
    Lit("Sorry, I encountered an error processing your request. Please try again.", 72)

(***************************************************************************)
(* Request inputs.                                                         *)
(***************************************************************************)
\* a JSON value of the `message' field: absent, of another type, or a string
Undefined == [type |-> "undefined", str |-> EmptyString]
NonString == [type |-> "number", str |-> EmptyString]
StringValue(s) == [type |-> "string", str |-> s]

\* the strings tried as `message': empty, blank, one character, padded, and
\* the lengths around the upper limit with and without padding
MessageStrings ==
    { EmptyString,
      Str("", 2, 0, 0),
      Str("q", 0, MaxMessageLength, 0),
      Str("q", 1, MaxMessageLength, 0),
      Str("q", 0, MaxMessageLength + 1, 0) }

MessageInputs == {Undefined, NonString} \cup {StringValue(s) : s \in MessageStrings}

\* session ids: strings of UUID syntax, and values that are not
\* the values randomUUID() returns for session ids, in the order drawn
ServerUUIDs == << "a0000000-0000-4000-8000-000000000001",
                  "a0000000-0000-4000-8000-000000000002",
                  "a0000000-0000-4000-8000-000000000003",
                  "a0000000-0000-4000-8000-000000000004",
                  "a0000000-0000-4000-8000-000000000005" >>
\* UUID-syntax ids a client makes up itself
ClientUUIDs == {"c0000000-0000-4000-8000-000000000001"}
UUIDs == ClientUUIDs \cup {ServerUUIDs[i] : i \in DOMAIN ServerUUIDs}
\* strings that are not of UUID syntax
MalformedIds == {"not-a-uuid", ""}
\* the field is absent / the field is not a string
NoSession == "<undefined>"
NumberSession == "<number>"

VARIABLES
    llmService,     \* TRUE when the LLMService was constructed, FALSE for null
    provider,       \* the condition of the completion service during the run
    storage,        \* the condition of the storage engine during the run
    foreignKeys,    \* TRUE when the SQLite build enforces foreign keys
    now,            \* Date.now()
    conversations,  \* rows of table conversations, in rowid order
    messages,       \* rows of table messages, in rowid order
    uuidCount,      \* number of message ids drawn from randomUUID()
    turns,          \* per chat-turn request: position of its handler and its data
    response,       \* the last response to a request that started no chat turn:
                    \* a rejected POST /chat/message, or GET /chat/history/:id
    call,           \* a call of LLMService.generateReply made for itself: its
                    \* arguments, the outcome of the completion and the result
    ui,             \* the state of the Chat component: messages, inputValue,
                    \* isLoading, error, sessionId, isTyping
    localStorage,   \* the item chat_session_id of the browser's localStorage
    sends,          \* the runs of handleSendMessage suspended on sendMessage
    historyLoad,    \* the run of loadHistory of the mounted component
    requests,       \* the bodies of the chat-turn requests the client has sent
    event,          \* the last event the client handled, and a bit that flips
                    \* with every event
    page,           \* the stored session id the page was loaded with, whether
                    \* New chat was used on it, and whether a submit has
                    \* happened since it was loaded or New chat was last used
    dbCall          \* the last call made on the DatabaseService for itself:
                    \* its arguments and what it returned or threw

\* what the process is started with
environment == <<llmService, provider, storage, foreignKeys>>

\* the state of the server: the store, the clock and the requests
server == <<now, conversations, messages, uuidCount, turns, response>>

\* the state kept for what is exercised apart from the server's handlers
\* the state of the client
client == <<ui, localStorage, sends, historyLoad, requests, event, page>>

apart == <<call, client, dbCall>>

vars == <<environment, server, apart>>

(***************************************************************************)
(* validation.ts                                                           *)
(***************************************************************************)
\* z.string().uuid(): the strings of UUID syntax
IsUUID(s) == s \in UUIDs

\* the message rule without its refinement on the trimmed value
MessageIssues_NoRefinement(v) ==
    IF v.type # "string"
    THEN << "Message must be a string" >>
    ELSE (IF Length(v.str) < MinMessageLength
          THEN << "Message cannot be empty" >> ELSE << >>)
         \o (IF Length(v.str) > MaxMessageLength
             THEN << "Message is too long. Please keep it under 2000 characters." >>
             ELSE << >>)

\* the issues of the `message' rule, in the order the checks run:
\* string type, .min(1), .max(2000) on the raw value, then .trim(), then the
\* refinement on the trimmed value
MessageIssues(v) ==
    IF v.type # "string"
    THEN << "Message must be a string" >>
    ELSE (IF Length(v.str) < MinMessageLength
          THEN << "Message cannot be empty" >> ELSE << >>)
         \o (IF Length(v.str) > MaxMessageLength
             THEN << "Message is too long. Please keep it under 2000 characters." >>
             ELSE << >>)
         \o (IF ~(Length(Trim(v.str)) > 0)
             THEN << "Message cannot be empty after trimming whitespace" >>
             ELSE << >>)

\* the sessionId rule without the .uuid() check
OptionalSessionIdIssues_NoUuidCheck(s) ==
    IF s = NoSession THEN << >>
    ELSE IF s = NumberSession THEN << "Invalid input: expected string" >>
    ELSE << >>

\* sessionId: z.string().uuid('Invalid session ID format').optional()
OptionalSessionIdIssues(s) ==
    IF s = NoSession THEN << >>
    ELSE IF s = NumberSession THEN << "Invalid input: expected string" >>
    ELSE IF ~IsUUID(s) THEN << "Invalid session ID format" >>
    ELSE << >>

\* sessionId: z.string({...}).uuid('Invalid session ID format')
SessionIdIssues(s) ==
    IF s = NoSession \/ s = NumberSession THEN << "Session ID must be a string" >>
    ELSE IF ~IsUUID(s) THEN << "Invalid session ID format" >>
    ELSE << >>

\* the schema without .trim(): the parsed message is the raw one
ChatMessageRequestSchema_NoTrim(body) ==
    [issues |-> MessageIssues(body.message) \o OptionalSessionIdIssues(body.sessionId),
     data |-> [message |-> body.message.str, sessionId |-> body.sessionId]]

\* schema.parse(data) of ChatMessageRequestSchema: the issues in key order and
\* the parsed value
ChatMessageRequestSchema(body) ==
    [issues |-> MessageIssues(body.message) \o OptionalSessionIdIssues(body.sessionId),
     data |-> [message |-> Trim(body.message.str), sessionId |-> body.sessionId]]

SessionIdParamSchema(params) ==
    [issues |-> SessionIdIssues(params.sessionId),
     data |-> [sessionId |-> params.sessionId]]

\* validateRequest: the parsed data, or the message of the first issue
validateRequest(parsed) ==
    IF parsed.issues = << >>
    THEN [success |-> TRUE, data |-> parsed.data, error |-> ""]
    ELSE [success |-> FALSE, data |-> parsed.data, error |-> Head(parsed.issues)]

(***************************************************************************)
(* database.ts.  A table is the sequence of its rows in rowid order; an    *)
(* operation takes the table it reads or writes.                           *)
(***************************************************************************)
\* the calls the handlers make on db
DbCalls ==
    {"conversationExists", "createConversation", "createMessage(user)",
     "getConversationHistory", "createMessage(ai)", "getMessages"}

\* the calls that throw during one run of a handler: none while the storage
\* engine is sound; while it is failing none, any one of them, or the read
\* of the history together with the insert that follows it
StoreFaults(condition) ==
    IF condition = "sound" THEN {{}}
    ELSE {{}} \cup {{c} : c \in DbCalls}
             \cup {{"getConversationHistory", "createMessage(ai)"}}

\* the message of the error a failing engine throws from stmt.run/get/all
StorageErrorText == "disk I/O error"

\* a statement that throws and leaves its table as it was
EngineFailure(rows) == [ok |-> FALSE, rows |-> rows, error |-> StorageErrorText]

\* an existence check that finds only the ids the server has drawn itself
conversationExists_ServerIdsOnly(convs, id) ==
    /\ \E k \in DOMAIN ServerUUIDs : ServerUUIDs[k] = id
    /\ Cardinality({i \in DOMAIN convs : convs[i].id = id}) > 0

\* an existence check that never finds the row
conversationExists_Never(convs, id) == FALSE

conversationExists(convs, id) ==
    Cardinality({i \in DOMAIN convs : convs[i].id = id}) > 0

\* INSERT INTO conversations: the PRIMARY KEY rejects a second row of an id
createConversation(convs, id) ==
    IF \E i \in DOMAIN convs : convs[i].id = id
    THEN [ok |-> FALSE, rows |-> convs,
          error |-> "UNIQUE constraint failed: conversations.id"]
    ELSE [ok |-> TRUE, rows |-> Append(convs, [id |-> id, createdAt |-> now]),
          error |-> ""]

\* INSERT INTO messages on a table without the CHECK on sender
createMessage_NoCheck(convs, msgs, id, conversationId, sender, text) ==
    IF \E i \in DOMAIN msgs : msgs[i].id = id
    THEN [ok |-> FALSE, rows |-> msgs,
          error |-> "UNIQUE constraint failed: messages.id"]
    ELSE IF foreignKeys /\ ~(\E i \in DOMAIN convs : convs[i].id = conversationId)
    THEN [ok |-> FALSE, rows |-> msgs, error |-> "FOREIGN KEY constraint failed"]
    ELSE [ok |-> TRUE,
          rows |-> Append(msgs, [id |-> id, conversationId |-> conversationId,
                                 sender |-> sender, text |-> text,
                                 timestamp |-> now]),
          error |-> ""]

\* INSERT INTO messages, with timestamp = Date.now(): the CHECK on sender,
\* the PRIMARY KEY and, where the engine enforces it, the FOREIGN KEY reject
\* the row
createMessage(convs, msgs, id, conversationId, sender, text) ==
    IF sender \notin {"user", "ai"}
    THEN [ok |-> FALSE, rows |-> msgs,
          error |-> "CHECK constraint failed: sender IN ('user', 'ai')"]
    ELSE IF \E i \in DOMAIN msgs : msgs[i].id = id
    THEN [ok |-> FALSE, rows |-> msgs,
          error |-> "UNIQUE constraint failed: messages.id"]
    ELSE IF foreignKeys /\ ~(\E i \in DOMAIN convs : convs[i].id = conversationId)
    THEN [ok |-> FALSE, rows |-> msgs, error |-> "FOREIGN KEY constraint failed"]
    ELSE [ok |-> TRUE,
          rows |-> Append(msgs, [id |-> id, conversationId |-> conversationId,
                                 sender |-> sender, text |-> text,
                                 timestamp |-> now]),
          error |-> ""]

\* a SELECT without the WHERE clause: the rowids of all messages
RowsOf_AnyConversation(msgs, conversationId) == DOMAIN msgs

\* WHERE conversationId = ?: the rowids of the messages of a conversation
RowsOf(msgs, conversationId) ==
    {i \in DOMAIN msgs : msgs[i].conversationId = conversationId}

\* order of the entries of idx_messages_conversation(conversationId, timestamp):
\* by timestamp, then by rowid
IndexBefore(msgs, i, j) ==
    \/ msgs[i].timestamp < msgs[j].timestamp
    \/ msgs[i].timestamp = msgs[j].timestamp /\ i <= j

\* ORDER BY timestamp ASC: the index read forwards
RECURSIVE OrderAsc(_, _)
OrderAsc(msgs, S) ==
    IF S = {} THEN << >>
    ELSE LET first == CHOOSE i \in S : \A j \in S : IndexBefore(msgs, i, j)
         IN  << msgs[first] >> \o OrderAsc(msgs, S \ {first})

\* ORDER BY timestamp DESC by a stable sort of the rows instead of the index
\* read backwards: rows of one timestamp stay in rowid order
RECURSIVE OrderDesc_StableSort(_, _)
OrderDesc_StableSort(msgs, S) ==
    IF S = {} THEN << >>
    ELSE LET first == CHOOSE i \in S : \A j \in S :
                          \/ msgs[i].timestamp > msgs[j].timestamp
                          \/ msgs[i].timestamp = msgs[j].timestamp /\ i <= j
         IN  << msgs[first] >> \o OrderDesc_StableSort(msgs, S \ {first})

\* ORDER BY timestamp DESC: the index read backwards
RECURSIVE OrderDesc(_, _)
OrderDesc(msgs, S) ==
    IF S = {} THEN << >>
    ELSE LET first == CHOOSE i \in S : \A j \in S : IndexBefore(msgs, j, i)
         IN  << msgs[first] >> \o OrderDesc(msgs, S \ {first})

\* LIMIT n (a negative n is no limit)
Limit(seq, n) ==
    IF n < 0 \/ n >= Len(seq) THEN seq ELSE SubSeq(seq, 1, n)

\* Array.prototype.reverse
Reverse(seq) == [i \in 1..Len(seq) |-> seq[Len(seq) + 1 - i]]

\* getMessages with ORDER BY timestamp DESC
getMessages_Descending(msgs, conversationId) ==
    OrderDesc(msgs, RowsOf(msgs, conversationId))

getMessages(msgs, conversationId) == OrderAsc(msgs, RowsOf(msgs, conversationId))

\* the history as the first rows instead of the last
getConversationHistory_Oldest(msgs, conversationId, limit) ==
    Limit(OrderAsc(msgs, RowsOf(msgs, conversationId)), limit)

getConversationHistory(msgs, conversationId, limit) ==
    Reverse(Limit(OrderDesc(msgs, RowsOf(msgs, conversationId)), limit))

\* no call made on the DatabaseService for itself yet
NoDbCall ==
    [op |-> "none", id |-> 0, conversationId |-> NoSession, sender |-> "",
     ok |-> TRUE, error |-> "", found |-> FALSE, rows |-> << >>, flip |-> FALSE]

\* a call of a method of db and its result
DbCall(op, id, conversationId, sender, ok, error, found, rows) ==
    [op |-> op, id |-> id, conversationId |-> conversationId, sender |-> sender,
     ok |-> ok, error |-> error, found |-> found, rows |-> rows,
     flip |-> ~dbCall.flip]

\* db.conversationExists(id)
DbConversationExists(id) ==
    /\ dbCall' = DbCall("conversationExists", 0, id, "", TRUE, "",
                        conversationExists(conversations, id), << >>)
    /\ UNCHANGED <<environment, server, call, client>>

\* db.createConversation(id)
DbCreateConversation(id) ==
    LET r == createConversation(conversations, id)
    IN  /\ conversations' = r.rows
        /\ dbCall' = DbCall("createConversation", 0, id, "", r.ok, r.error, FALSE, << >>)
        /\ UNCHANGED <<environment, now, messages, uuidCount, turns, response, call,
                       client>>

\* db.createMessage(id, conversationId, sender, text), the id a fresh
\* randomUUID() or the id of a row
DbCreateMessage(id, conversationId, sender, text) ==
    LET r == createMessage(conversations, messages, id, conversationId, sender, text)
    IN  /\ uuidCount < MaxStoreIds
        /\ messages' = r.rows
        /\ uuidCount' = IF id > uuidCount THEN id ELSE uuidCount
        /\ dbCall' = DbCall("createMessage", id, conversationId, sender, r.ok, r.error,
                            FALSE, << >>)
        /\ UNCHANGED <<environment, now, conversations, turns, response, call, client>>

\* db.getMessages(conversationId)
DbGetMessages(conversationId) ==
    /\ dbCall' = DbCall("getMessages", 0, conversationId, "", TRUE, "", FALSE,
                        getMessages(messages, conversationId))
    /\ UNCHANGED <<environment, server, call, client>>

\* db.getConversationHistory(conversationId, limit)
DbGetConversationHistory(conversationId, limit) ==
    /\ dbCall' = DbCall("getConversationHistory", 0, conversationId, "", TRUE, "", FALSE,
                        getConversationHistory(messages, conversationId, limit))
    /\ UNCHANGED <<environment, server, call, client>>

(***************************************************************************)
(* llm.ts                                                                  *)
(***************************************************************************)
\* an Error: whether it has a message, the message and the words of the
\* classification that occur in it
Error(text) == [hasMessage |-> TRUE, message |-> text, words |-> {}]

ProviderError(tag, words) ==
    [hasMessage |-> TRUE, message |-> Lit(tag, 30), words |-> words]

NoMessageError == [hasMessage |-> FALSE, message |-> EmptyString, words |-> {}]

\* error.message?.includes(word)
Includes(error, word) == error.hasMessage /\ word \in error.words

\* a catch block that throws the caught error again
ClassifyError_Rethrow(error) == error

\* the catch block of generateReply: the error it throws for a caught error
ClassifyError(error) ==
    IF Includes(error, "API key") \/ Includes(error, "API_KEY")
    THEN Error(InvalidKeyReply)
    ELSE IF Includes(error, "quota") \/ Includes(error, "rate limit")
    THEN Error(RateLimitReply)
    ELSE IF Includes(error, "timeout")
    THEN Error(TimeoutReply)
    ELSE Error(GenericErrorReply)

\* the outcomes of genAI.models.generateContent: a result with its text, or
\* a rejection with the provider's error
Completion(text) == [ok |-> TRUE, text |-> text, error |-> NoMessageError]
Rejection(error) == [ok |-> FALSE, text |-> Undefined, error |-> error]

\* The completion service is in one condition during a run; a call to it
\* settles with one of the outcomes of that condition.
ProviderConditions == {"healthy", "credential", "throttled", "slow", "broken"}

CompletionOutcomes(condition) ==
    CASE condition = "healthy" ->
           { Completion(Undefined),
             Completion(StringValue(EmptyString)),
             Completion(StringValue(Str("", 2, 0, 0))),
             Completion(StringValue(Str("answer", 0, 6, 0))),
             Completion(StringValue(Str("answer", 1, 6, 1))) }
      [] condition = "credential" ->
           { Rejection(ProviderError("provider: API key not valid", {"API key"})),
             Rejection(ProviderError("provider: API_KEY_INVALID, quota exceeded",
                                     {"API_KEY", "quota"})) }
      [] condition = "throttled" ->
           { Rejection(ProviderError("provider: quota exceeded", {"quota"})),
             Rejection(ProviderError("provider: rate limit, timeout",
                                     {"rate limit", "timeout"})) }
      [] condition = "slow" ->
           { Rejection(ProviderError("provider: timeout", {"timeout"})) }
      [] OTHER ->
           { Rejection(ProviderError("provider: internal error", {})),
             Rejection(NoMessageError) }

\* generateReply without the check for an empty completion
generateReply_NoEmptyCheck(outcome) ==
    IF ~outcome.ok
    THEN [ok |-> FALSE, reply |-> EmptyString, error |-> ClassifyError(outcome.error)]
    ELSE IF outcome.text.type # "string"
    THEN [ok |-> FALSE, reply |-> EmptyString,
          error |-> ClassifyError(Error(Lit("Cannot read properties of undefined", 35)))]
    ELSE [ok |-> TRUE, reply |-> Trim(outcome.text.str), error |-> NoMessageError]

\* generateReply returning the completion text as it came
generateReply_NoTrim(outcome) ==
    IF ~outcome.ok
    THEN [ok |-> FALSE, reply |-> EmptyString, error |-> ClassifyError(outcome.error)]
    ELSE IF outcome.text.type # "string" \/ Length(outcome.text.str) = 0
              \/ Length(Trim(outcome.text.str)) = 0
    THEN [ok |-> FALSE, reply |-> EmptyString,
          error |-> ClassifyError(Error(Lit("Empty response from LLM", 23)))]
    ELSE [ok |-> TRUE, reply |-> outcome.text.str, error |-> NoMessageError]

\* generateReply from the point where generateContent settles: the reply it
\* returns, or the error it throws
generateReply(outcome) ==
    IF ~outcome.ok
    THEN [ok |-> FALSE, reply |-> EmptyString, error |-> ClassifyError(outcome.error)]
    ELSE IF outcome.text.type # "string" \/ Length(outcome.text.str) = 0
              \/ Length(Trim(outcome.text.str)) = 0
    THEN [ok |-> FALSE, reply |-> EmptyString,
          error |-> ClassifyError(Error(Lit("Empty response from LLM", 23)))]
    ELSE [ok |-> TRUE, reply |-> Trim(outcome.text.str), error |-> NoMessageError]

\* Array.prototype.slice(-n): the last n elements
SliceLast(seq, n) ==
    IF Len(seq) <= n THEN seq ELSE SubSeq(seq, Len(seq) - n + 1, Len(seq))

\* a part of the prompt: FAQ_KNOWLEDGE, the heading of the history, a line
\* `Role: text', or the cue `Agent:'
Part(part, role, text) == [part |-> part, role |-> role, text |-> text]

\* the line of the prompt for a message of the history
HistoryLine(msg) ==
    Part("line", IF msg.sender = "user" THEN "Customer" ELSE "Agent", msg.text)

\* buildConversationContext over the whole history
buildConversationContext_NoSlice(history, currentMessage) ==
    << Part("knowledge", "", EmptyString) >>
        \o (IF Len(history) > 0
            THEN << Part("heading", "", EmptyString) >>
                     \o [i \in 1..Len(history) |-> HistoryLine(history[i])]
            ELSE << >>)
        \o << Part("line", "Customer", currentMessage), Part("cue", "Agent", EmptyString) >>

\* lines 312-333: the prompt as the sequence of its parts
buildConversationContext(history, currentMessage) ==
    LET recentHistory == SliceLast(history, ContextLimit)
    IN  << Part("knowledge", "", EmptyString) >>
            \o (IF Len(recentHistory) > 0
                THEN << Part("heading", "", EmptyString) >>
                         \o [i \in 1..Len(recentHistory) |-> HistoryLine(recentHistory[i])]
                ELSE << >>)
            \o << Part("line", "Customer", currentMessage),
                  Part("cue", "Agent", EmptyString) >>

\* no call of generateReply was made for itself
NoCall ==
    [state |-> "none", conversationHistory |-> << >>, userMessage |-> EmptyString,
     contents |-> << >>,
     outcome |-> Completion(Undefined),
     result |-> [ok |-> FALSE, reply |-> EmptyString, error |-> NoMessageError]]

\* the texts of result.text tried: absent, empty, whitespace only, and a text
\* of one or six characters with up to two whitespace characters around it
CompletionTexts ==
    {Undefined, StringValue(EmptyString)}
        \cup {StringValue(Str("", lead, 0, 0)) : lead \in 1..3}
        \cup {StringValue(Str("answer", lead, len, trail)) :
                  lead \in 0..2, len \in {1, 6}, trail \in 0..2}

\* the outcomes of generateContent tried for a provider in a condition
ReplyOutcomes(condition) ==
    CompletionOutcomes(condition)
        \cup (IF condition = "healthy" THEN {Completion(v) : v \in CompletionTexts}
              ELSE {})

\* a conversation of n messages, user and ai in turn, the i-th of i characters
Dialogue(n) ==
    [i \in 1..n |-> [id |-> i, conversationId |-> ServerUUIDs[1],
                     sender |-> IF i % 2 = 1 THEN "user" ELSE "ai",
                     text |-> Lit("m", i), timestamp |-> 0]]

\* the lengths of the histories tried, up to two more than the prompt takes
DialogueLengths == {2, ContextLimit - 1, ContextLimit, ContextLimit + 1, ContextLimit + 2}

\* the arguments of generateReply tried
ReplyHistories ==
    { << >>,
      << [id |-> 1, conversationId |-> ServerUUIDs[1], sender |-> "user",
          text |-> Lit("q", 1), timestamp |-> 0] >> }
        \cup {Dialogue(n) : n \in DialogueLengths}

ReplyMessages == {Lit("q", 1), Lit("q", MaxMessageLength)}

\* generateReply(conversationHistory, userMessage) is called and suspends on
\* generateContent
GenerateReplyCalled(conversationHistory, userMessage) ==
    /\ call.state = "none"
    /\ call' = [call EXCEPT !.state = "pending",
                            !.conversationHistory = conversationHistory,
                            !.userMessage = userMessage,
                            !.contents = buildConversationContext(conversationHistory,
                                                                  userMessage)]
    /\ UNCHANGED <<environment, server, client, dbCall>>

\* generateContent settles: generateReply returns the reply or throws
GenerateReplySettles(outcome) ==
    /\ call.state = "pending"
    /\ call' = [call EXCEPT !.state = "settled", !.outcome = outcome,
                            !.result = generateReply(outcome)]
    /\ UNCHANGED <<environment, server, client, dbCall>>

(***************************************************************************)
(* index.ts                                                                *)
(***************************************************************************)
\* a request slot before its request arrives
IdleTurn ==
    [pc |-> "idle",
     body |-> [message |-> Undefined, sessionId |-> NoSession],
     sessionId |-> NoSession, message |-> EmptyString, created |-> FALSE,
     userMessageId |-> 0, aiMessageId |-> 0, historyArg |-> << >>,
     llmCalls |-> 0, caught |-> FALSE, status |-> 0, error |-> "",
     reply |-> EmptyString]

NoResponse ==
    [endpoint |-> "none", body |-> [message |-> Undefined, sessionId |-> NoSession],
     status |-> 0, error |-> "", sessionId |-> NoSession, messages |-> << >>]

\* randomUUID() for a session id: the next value not drawn yet
randomUUID(convs) ==
    ServerUUIDs[Cardinality({i \in DOMAIN convs :
                               \E k \in DOMAIN ServerUUIDs : convs[i].id = ServerUUIDs[k]}) + 1]

\* requestSessionId || randomUUID()
ResolveSessionId(requestSessionId, convs) ==
    IF requestSessionId # NoSession /\ requestSessionId # ""
    THEN requestSessionId
    ELSE randomUUID(convs)

\* a test that takes null for a service
LLMEnabled_Always(service) == TRUE

\* llmService !== null
LLMEnabled(service) == service

\* error.message || 'Sorry, I encountered an error. Please try again.'
ReplyForError(error) ==
    IF error.hasMessage /\ Length(error.message) > 0 THEN error.message
    ELSE DefaultApology

\* the await without the try/catch around it: the error is thrown further
ObtainReply_NoCatch(result) ==
    IF result.ok
    THEN [thrown |-> FALSE, caught |-> FALSE, reply |-> result.reply, error |-> ""]
    ELSE [thrown |-> TRUE, caught |-> FALSE, reply |-> EmptyString,
          error |-> result.error.message.tag]

\* lines 102-108, after the await: the try block yields the reply, the catch
\* block turns a thrown error into a reply; nothing is thrown further
ObtainReply(result) ==
    IF result.ok
    THEN [thrown |-> FALSE, caught |-> FALSE, reply |-> result.reply, error |-> ""]
    ELSE [thrown |-> FALSE, caught |-> TRUE, reply |-> ReplyForError(result.error),
          error |-> ""]

\* lines 74-80: res.status(400).json({error, timestamp})
Respond400(body, error) ==
    [endpoint |-> "chat", body |-> body, status |-> 400, error |-> error,
     sessionId |-> NoSession, messages |-> << >>]

\* lines 165-175, the global error handler: the body's error field is
\* error.message || 'Internal server error'
ErrorField(message) == IF message # "" THEN message ELSE "Internal server error"

\* a throw of the handler: asyncHandler passes it to the global error
\* handler, which answers error.status || 500 with error.message
Respond500(turn, error) ==
    [turn EXCEPT !.pc = "done", !.status = 500, !.error = ErrorField(error)]

\* answering {reply, sessionId} without saving the AI reply
SaveReplyAndRespond_NoSave(turn, convs, msgs, count, aiReply, faults) ==
    [turn |-> [turn EXCEPT !.pc = "done", !.status = 200, !.reply = aiReply],
     messages |-> msgs, uuidCount |-> count]

\* lines 111-121: save the AI reply and answer {reply, sessionId}
SaveReplyAndRespond(turn, convs, msgs, count, aiReply, faults) ==
    LET aiMessageId == count + 1
        saved == IF "createMessage(ai)" \in faults THEN EngineFailure(msgs)
                 ELSE createMessage(convs, msgs, aiMessageId, turn.sessionId, "ai", aiReply)
    IN  IF saved.ok
        THEN [turn |-> [turn EXCEPT !.pc = "done", !.aiMessageId = aiMessageId,
                                    !.status = 200, !.reply = aiReply],
              messages |-> saved.rows, uuidCount |-> aiMessageId]
        ELSE [turn |-> Respond500(turn, saved.error),
              messages |-> msgs, uuidCount |-> aiMessageId]

\* lines 82-109: everything the handler does for a validated request before
\* it suspends on generateReply (or, when it does not call it, until it
\* answers).  A db call that throws before the try block ends the handler in
\* the global error handler; getConversationHistory throws inside the try
\* block, so its error's message becomes the reply.
HandleValidated(turn, body, data, faults) ==
    LET sessionId == ResolveSessionId(data.sessionId, conversations)
        exists == conversationExists(conversations, sessionId)
        conv == IF exists THEN [ok |-> TRUE, rows |-> conversations, error |-> ""]
                ELSE IF "createConversation" \in faults THEN EngineFailure(conversations)
                ELSE createConversation(conversations, sessionId)
        userMessageId == uuidCount + 1
        user == IF "createMessage(user)" \in faults THEN EngineFailure(messages)
                ELSE createMessage(conv.rows, messages, userMessageId, sessionId,
                                   "user", data.message)
        received == [turn EXCEPT !.body = body, !.sessionId = sessionId,
                                 !.message = data.message]
        started == [received EXCEPT !.created = ~exists]
        persisted == [started EXCEPT !.userMessageId = userMessageId]
    IN  IF "conversationExists" \in faults
        THEN [turn |-> Respond500(received, StorageErrorText),
              conversations |-> conversations, messages |-> messages,
              uuidCount |-> uuidCount]
        ELSE IF ~conv.ok
        THEN [turn |-> Respond500(started, conv.error), conversations |-> conversations,
              messages |-> messages, uuidCount |-> uuidCount]
        ELSE IF ~user.ok
        THEN [turn |-> Respond500(started, user.error), conversations |-> conv.rows,
              messages |-> messages, uuidCount |-> userMessageId]
        ELSE IF ~LLMEnabled(llmService)
        THEN [conversations |-> conv.rows]
                 @@ SaveReplyAndRespond(persisted, conv.rows, user.rows, userMessageId,
                                        UnavailableReply, faults)
        ELSE IF "getConversationHistory" \in faults
        THEN [conversations |-> conv.rows]
                 @@ SaveReplyAndRespond([persisted EXCEPT !.caught = TRUE],
                                        conv.rows, user.rows, userMessageId,
                                        ReplyForError(Error(Lit(StorageErrorText, 14))),
                                        faults)
        ELSE [turn |-> [persisted EXCEPT
                          !.pc = "awaiting",
                          !.historyArg =
                              getConversationHistory(user.rows, sessionId, HistoryLimit),
                          !.llmCalls = @ + 1],
              conversations |-> conv.rows, messages |-> user.rows,
              uuidCount |-> userMessageId]

\* the session ids a client may send: none, a non-string, a malformed
\* string, an id of its own, or the id of an existing conversation
SessionInputs ==
    {NoSession, NumberSession} \cup MalformedIds \cup ClientUUIDs
        \cup {conversations[i].id : i \in DOMAIN conversations}

\* POST /chat/message arrives: validation and, for a valid body, the
\* handler up to its first suspension
ChatMessage(t, body, faults) ==
    /\ turns[t].pc = "idle"
    /\ \A u \in Turns : u < t => turns[u].pc # "idle"
    /\ LET validation == validateRequest(ChatMessageRequestSchema(body))
       IN  IF ~validation.success
           THEN /\ response' = Respond400(body, validation.error)
                /\ UNCHANGED <<conversations, messages, uuidCount, turns>>
           ELSE LET r == HandleValidated(turns[t], body, validation.data, faults)
                IN  /\ turns' = [turns EXCEPT ![t] = r.turn]
                    /\ conversations' = r.conversations
                    /\ messages' = r.messages
                    /\ uuidCount' = r.uuidCount
                    /\ UNCHANGED response
    /\ UNCHANGED <<environment, now, apart>>

\* a handler that calls generateReply a second time after a failure
CompletionSettles_RetryOnce(t, outcome, faults) ==
    /\ turns[t].pc = "awaiting"
    /\ LET obtained == ObtainReply(generateReply(outcome))
           turn == [turns[t] EXCEPT !.caught = obtained.caught]
           r == IF obtained.caught /\ turns[t].llmCalls < 2
                THEN [turn |-> [turns[t] EXCEPT !.llmCalls = @ + 1],
                      messages |-> messages, uuidCount |-> uuidCount]
                ELSE SaveReplyAndRespond(turn, conversations, messages, uuidCount,
                                         obtained.reply, faults)
       IN  /\ turns' = [turns EXCEPT ![t] = r.turn]
           /\ messages' = r.messages
           /\ uuidCount' = r.uuidCount
    /\ UNCHANGED <<environment, now, conversations, response, apart>>

\* the completion call of turn t settles: generateReply returns or throws,
\* the handler takes the reply or the error's message, saves it and answers
CompletionSettles(t, outcome, faults) ==
    /\ turns[t].pc = "awaiting"
    /\ LET obtained == ObtainReply(generateReply(outcome))
           turn == [turns[t] EXCEPT !.caught = obtained.caught]
           r == IF obtained.thrown
                THEN [turn |-> Respond500(turn, obtained.error),
                      messages |-> messages, uuidCount |-> uuidCount]
                ELSE SaveReplyAndRespond(turn, conversations, messages, uuidCount,
                                         obtained.reply, faults)
       IN  /\ turns' = [turns EXCEPT ![t] = r.turn]
           /\ messages' = r.messages
           /\ uuidCount' = r.uuidCount
    /\ UNCHANGED <<environment, now, conversations, response, apart>>

\* a response of GET /chat/history/:sessionId
HistoryResponse(param, status, error, sessionId, rows) ==
    [endpoint |-> "history", body |-> [message |-> Undefined, sessionId |-> param],
     status |-> status, error |-> error, sessionId |-> sessionId, messages |-> rows]

\* lines 125-153: what the handler of GET /chat/history/:sessionId answers
HistoryAnswer(param, faults) ==
    LET validation == validateRequest(SessionIdParamSchema([sessionId |-> param]))
        sessionId == validation.data.sessionId
    IN  IF ~validation.success
        THEN HistoryResponse(param, 400, validation.error, NoSession, << >>)
        ELSE IF "conversationExists" \in faults
        THEN HistoryResponse(param, 500, ErrorField(StorageErrorText), NoSession, << >>)
        ELSE IF ~conversationExists(conversations, sessionId)
        THEN HistoryResponse(param, 404, "Conversation not found", NoSession, << >>)
        ELSE IF "getMessages" \in faults
        THEN HistoryResponse(param, 500, ErrorField(StorageErrorText), NoSession, << >>)
        ELSE HistoryResponse(param, 200, "", sessionId, getMessages(messages, sessionId))

\* GET /chat/history/:sessionId
ChatHistory(param, faults) ==
    /\ response' = HistoryAnswer(param, faults)
    /\ UNCHANGED <<environment, now, conversations, messages, uuidCount, turns, apart>>

\* the path parameters tried: a route segment is a non-empty string
PathInputs ==
    {"not-a-uuid"} \cup ClientUUIDs \cup {conversations[i].id : i \in DOMAIN conversations}

\* the wall clock advances
Tick ==
    /\ now < MaxTime
    /\ now' = now + 1
    /\ UNCHANGED <<environment, conversations, messages, uuidCount, turns, response, apart>>

(***************************************************************************)
(* Chat.tsx and api.ts: the client.  null and undefined are written        *)
(* NoSession for a session id and "" for the error banner.                 *)
(***************************************************************************)
\* the useState values of a mounted Chat component
InitialState ==
    [messages |-> << >>, inputValue |-> EmptyString, isLoading |-> FALSE,
     error |-> "", sessionId |-> NoSession, isTyping |-> FALSE]

\* loadHistory has not called getHistory, or has finished
NoHistoryLoad == [state |-> "none", sessionId |-> NoSession, response |-> NoResponse]

\* a Message of the client's list: `${kind}-${at}` is its id
ClientMessage(kind, at, sender, text, timestamp) ==
    [id |-> [kind |-> kind, at |-> at], sender |-> sender, text |-> text,
     timestamp |-> timestamp]

\* a Message as the history endpoint returns it
ServerMessage(row) == ClientMessage("row", row.id, row.sender, row.text, row.timestamp)

\* prev.filter((m) => m.id !== id)
FilterOut(list, id) == SelectSeq(list, LAMBDA m : m.id # id)

\* a session id that is truthy
Truthy(id) == id # NoSession /\ id # ""

\* the texts typed into the input, whose maxLength is 2000
TypedTexts == {Str("", 2, 0, 0), Str("q", 1, 1, 1)}

\* the next event of the client
Event(name) == [name |-> name, flip |-> ~event.flip]

\* a run of handleSendMessage whose list was replaced meanwhile
Replaced(send) == [send EXCEPT !.replaced = TRUE]

\* onChange of the input, which is disabled while loading
Type(text) ==
    /\ ~ui.isLoading
    /\ ui' = [ui EXCEPT !.inputValue = text]
    /\ event' = Event("type")
    /\ UNCHANGED <<environment, server, call, dbCall, localStorage, sends, historyLoad, requests,
                   page>>

\* the button of the error banner: setError(null)
DismissError ==
    /\ ui.error # ""
    /\ ui' = [ui EXCEPT !.error = ""]
    /\ event' = Event("dismiss")
    /\ UNCHANGED <<environment, server, call, dbCall, localStorage, sends, historyLoad, requests,
                   page>>

\* a handleSendMessage that does not append the user message before the call
Submitted_NoOptimisticAppend(state, trimmedMessage, temp) ==
    [state EXCEPT !.error = "", !.inputValue = EmptyString, !.isLoading = TRUE,
                  !.isTyping = TRUE]

\* a handleSendMessage that does not set the loading flag
Submitted_NotLoading(state, trimmedMessage, temp) ==
    [state EXCEPT !.error = "", !.inputValue = EmptyString,
                  !.messages = Append(@, temp), !.isTyping = TRUE]

\* lines 70-85: the state after the submit of a valid message
Submitted(state, trimmedMessage, temp) ==
    [state EXCEPT !.error = "", !.inputValue = EmptyString, !.isLoading = TRUE,
                  !.messages = Append(@, temp), !.isTyping = TRUE]

\* handleSendMessage up to its await; the submit button is disabled while
\* loading and while the input is blank
HandleSendMessage ==
    /\ ~ui.isLoading /\ Length(Trim(ui.inputValue)) > 0
    /\ Len(requests) < MaxTurns
    /\ LET trimmedMessage == Trim(ui.inputValue)
           temp == ClientMessage("temp", now, "user", trimmedMessage, now)
       IN  IF Length(trimmedMessage) = 0
           THEN /\ ui' = [ui EXCEPT !.error = "Please enter a message"]
                /\ UNCHANGED <<sends, requests>>
           ELSE IF Length(trimmedMessage) > MaxMessageLength
           THEN /\ ui' = [ui EXCEPT !.error =
                            "Message is too long. Please keep it under 2000 characters."]
                /\ UNCHANGED <<sends, requests>>
           ELSE /\ ui' = Submitted(ui, trimmedMessage, temp)
                /\ requests' =
                       Append(requests,
                              [message |-> StringValue(trimmedMessage),
                               sessionId |-> IF Truthy(ui.sessionId) THEN ui.sessionId
                                             ELSE NoSession])
                /\ sends' = sends \cup
                       {[turn |-> Len(requests) + 1, temp |-> temp.id,
                         trimmedMessage |-> trimmedMessage, sessionId |-> ui.sessionId,
                         before |-> ui.messages, replaced |-> FALSE]}
    /\ event' = Event("submit")
    /\ page' = [page EXCEPT !.submitted = TRUE]
    /\ UNCHANGED <<environment, server, call, dbCall, localStorage, historyLoad>>

\* api.ts lines 46-57: what sendMessage returns or throws for a response
SendMessageResult(turn) ==
    IF turn.status # 200
    THEN [ok |-> FALSE, reply |-> EmptyString, sessionId |-> NoSession,
          error |-> IF turn.error # "" THEN turn.error ELSE "HTTP error! status: 500"]
    ELSE [ok |-> TRUE, reply |-> turn.reply, sessionId |-> turn.sessionId, error |-> ""]

\* api.ts lines 58-67: fetch rejects
CannotConnect ==
    [ok |-> FALSE, reply |-> EmptyString, sessionId |-> NoSession,
     error |-> "Cannot connect to server"]

\* a catch block that leaves the temporary message in the list
RolledBack_KeepTemp(list, temp) == list

\* line 124: the catch block removes the temporary message
RolledBack(list, temp) == FilterOut(list, temp)

\* lines 97-118: the temporary message is replaced by the user message and
\* the AI response
Confirmed(list, send, reply) ==
    FilterOut(list, send.temp)
        \o << ClientMessage("user", now, "user", send.trimmedMessage, now),
              ClientMessage("ai", now, "ai", reply, now + 1) >>

\* handleSendMessage after its await: lines 91-118 when sendMessage returned,
\* lines 120-127 when it threw, then the finally block
SendMessageSettles(send, result) ==
    /\ IF result.ok
       THEN /\ ui' = [ui EXCEPT
                        !.sessionId = IF ~Truthy(send.sessionId) THEN result.sessionId
                                      ELSE @,
                        !.messages = Confirmed(@, send, result.reply),
                        !.isLoading = FALSE, !.isTyping = FALSE]
            /\ localStorage' = IF ~Truthy(send.sessionId) THEN result.sessionId
                               ELSE localStorage
       ELSE /\ ui' = [ui EXCEPT
                        !.messages = RolledBack(@, send.temp),
                        !.error = IF result.error # "" THEN result.error
                                  ELSE "Failed to send message. Please try again.",
                        !.isLoading = FALSE, !.isTyping = FALSE]
            /\ UNCHANGED localStorage
    /\ sends' = sends \ {send}
    /\ event' = Event(IF result.ok THEN "sendOk" ELSE "sendFail")
    /\ UNCHANGED <<environment, server, call, dbCall, historyLoad, requests, page>>

\* the response of the chat turn arrives
SendMessageResponds ==
    \E send \in sends :
        /\ turns[send.turn].pc = "done"
        /\ SendMessageSettles(send, SendMessageResult(turns[send.turn]))

\* the request or its response is lost
SendMessageCannotConnect == \E send \in sends : SendMessageSettles(send, CannotConnect)

\* a New chat that keeps the stored session id
Cleared_KeepStored(stored) == stored

\* line 136: localStorage.removeItem(SESSION_STORAGE_KEY)
Cleared(stored) == NoSession

\* handleNewChat; the button is rendered while the list is not empty
HandleNewChat ==
    /\ Len(ui.messages) > 0
    /\ localStorage' = Cleared(localStorage)
    /\ ui' = [ui EXCEPT !.sessionId = NoSession, !.messages = << >>, !.error = "",
                        !.inputValue = EmptyString]
    /\ sends' = {Replaced(send) : send \in sends}
    /\ event' = Event("newChat")
    /\ page' = [page EXCEPT !.cleared = TRUE, !.submitted = FALSE]
    /\ UNCHANGED <<environment, server, call, dbCall, historyLoad, requests>>

\* the page is loaded again: a new component is mounted, the runs of the old
\* one are gone, and loadHistory (lines 35-52) asks for the stored session
Reload ==
    /\ ui' = InitialState
    /\ sends' = {}
    /\ historyLoad' = IF Truthy(localStorage)
                      THEN [state |-> "requested", sessionId |-> localStorage,
                            response |-> NoResponse]
                      ELSE NoHistoryLoad
    /\ event' = Event("mount")
    /\ page' = [stored |-> localStorage, submitted |-> FALSE, cleared |-> FALSE]
    /\ UNCHANGED <<environment, server, call, dbCall, localStorage, requests>>

\* the server answers the GET /chat/history/:sessionId of loadHistory
GetHistoryAnswered ==
    /\ historyLoad.state = "requested"
    /\ \E faults \in StoreFaults(storage) :
          historyLoad' = [historyLoad EXCEPT
                            !.state = "answered",
                            !.response = HistoryAnswer(historyLoad.sessionId, faults)]
    /\ UNCHANGED <<environment, server, call, dbCall, ui, localStorage, sends, requests, event,
                   page>>

\* api.ts lines 75-86: the messages getHistory returns
HistoryMessages(answer) ==
    IF answer.status = 200
    THEN [k \in DOMAIN answer.messages |-> ServerMessage(answer.messages[k])]
    ELSE << >>

\* loadHistory after its await: getHistory returned (200, or 404 as no
\* messages) or threw
GetHistoryResponds ==
    /\ historyLoad.state = "answered"
    /\ LET answer == historyLoad.response
           returned == answer.status \in {200, 404}
           history == HistoryMessages(answer)
       IN  /\ IF returned /\ Len(history) > 0
              THEN /\ ui' = [ui EXCEPT !.messages = history,
                                       !.sessionId = historyLoad.sessionId]
                   /\ sends' = {Replaced(send) : send \in sends}
              ELSE UNCHANGED <<ui, sends>>
           /\ event' = Event(IF returned THEN "historyOk" ELSE "historyFail")
    /\ historyLoad' = NoHistoryLoad
    /\ UNCHANGED <<environment, server, call, dbCall, localStorage, requests, page>>

\* the GET or its response is lost: getHistory throws, loadHistory logs it
GetHistoryCannotConnect ==
    /\ historyLoad.state \in {"requested", "answered"}
    /\ historyLoad' = NoHistoryLoad
    /\ event' = Event("historyFail")
    /\ UNCHANGED <<environment, server, call, dbCall, ui, localStorage, sends, requests, page>>

\* the server receives a chat-turn request the client has sent
ServerReceives ==
    \E t \in DOMAIN requests : \E faults \in StoreFaults(storage) :
        ChatMessage(t, requests[t], faults)

\* the process after start-up: the store is empty, no request has arrived
\* no request received, no call made and the page just opened
Quiet ==
    /\ now = 0
    /\ turns = [t \in Turns |-> IdleTurn]
    /\ response = NoResponse
    /\ call = NoCall
    /\ ui = InitialState
    /\ localStorage = NoSession
    /\ sends = {}
    /\ historyLoad = NoHistoryLoad
    /\ requests = << >>
    /\ event = [name |-> "mount", flip |-> FALSE]
    /\ page = [stored |-> NoSession, submitted |-> FALSE, cleared |-> FALSE]
    /\ dbCall = NoDbCall

\* a process started on a new database file
Boot ==
    /\ conversations = << >>
    /\ messages = << >>
    /\ uuidCount = 0
    /\ Quiet

\* a server with or without a credential, on a completion service in any
\* condition and on a storage engine that works, of either build
Init ==
    /\ \/ llmService = FALSE /\ provider = "healthy"
       \/ llmService = TRUE /\ provider \in ProviderConditions
    /\ storage = "sound"
    /\ foreignKeys \in BOOLEAN
    /\ Boot

\* a server with or without a credential on a storage engine that fails; the
\* SQLite build is the default one
FaultInit ==
    /\ llmService \in BOOLEAN
    /\ provider = "healthy"
    /\ storage = "failing"
    /\ foreignKeys = FALSE
    /\ Boot

\* the message a client sends together with a session id
FollowUp == StringValue(Str("q", 1, 1, 2))

\* the bodies tried: every message without a session id, every session id
\* with one padded valid message, and a body with both fields invalid
Bodies ==
    {[message |-> m, sessionId |-> NoSession] : m \in MessageInputs}
        \cup {[message |-> FollowUp, sessionId |-> s] : s \in SessionInputs}
        \cup {[message |-> Undefined, sessionId |-> "not-a-uuid"]}

Request ==
    \E t \in Turns : \E body \in Bodies : \E faults \in StoreFaults(storage) :
        ChatMessage(t, body, faults)

Settle ==
    \E t \in Turns : \E o \in CompletionOutcomes(provider) :
        \E faults \in StoreFaults(storage) : CompletionSettles(t, o, faults)

Lookup == \E p \in PathInputs : \E faults \in StoreFaults(storage) : ChatHistory(p, faults)

Next == Request \/ Settle \/ Lookup \/ Tick

Spec == Init /\ [][Next]_vars

\* the same server on a storage engine that fails
FaultSpec == FaultInit /\ [][Next]_vars

\* the server on the default SQLite build
DefaultBuildInit == Init /\ foreignKeys = FALSE

DefaultBuildSpec == DefaultBuildInit /\ [][Next]_vars

\* the completion call of every turn settles: the promise of generateContent
\* resolves or rejects
LiveSpec ==
    DefaultBuildSpec /\ \A t \in Turns :
               WF_vars(\E o \in CompletionOutcomes(provider) :
                          \E faults \in StoreFaults(storage) :
                              CompletionSettles(t, o, faults))

(***************************************************************************)
(* The reply generator for itself: LLMService.generateReply called with    *)
(* arguments of its own, on a provider in any condition.                   *)
(***************************************************************************)
ReplyInit ==
    /\ llmService = TRUE
    /\ provider \in ProviderConditions
    /\ storage = "sound"
    /\ foreignKeys = FALSE
    /\ Boot

ReplyCall ==
    \E h \in ReplyHistories : \E m \in ReplyMessages : GenerateReplyCalled(h, m)

ReplySettle == \E o \in ReplyOutcomes(provider) : GenerateReplySettles(o)

ReplyNext == ReplyCall \/ ReplySettle

ReplySpec == ReplyInit /\ [][ReplyNext]_vars

(***************************************************************************)
(* The client and the server: a first visit of the page, on a server with  *)
(* or without a credential whose completion service and storage work.      *)
(***************************************************************************)
ClientInit ==
    /\ llmService \in BOOLEAN
    /\ provider = "healthy"
    /\ storage = "sound"
    /\ foreignKeys = FALSE
    /\ Boot

Typing == \E text \in TypedTexts : Type(text)

ClientNext ==
    \/ Typing
    \/ DismissError
    \/ HandleSendMessage
    \/ SendMessageResponds
    \/ SendMessageCannotConnect
    \/ HandleNewChat
    \/ Reload
    \/ GetHistoryAnswered
    \/ GetHistoryResponds
    \/ GetHistoryCannotConnect
    \/ ServerReceives
    \/ Settle

ClientSpec == ClientInit /\ [][ClientNext]_vars

\* the promise of fetch settles: with the server's response once there is
\* one, or with the failure of the connection
ClientLiveSpec ==
    ClientSpec /\ WF_vars(SendMessageResponds \/ SendMessageCannotConnect)

(***************************************************************************)
(* The server started on a database file that holds a conversation of      *)
(* earlier turns, with a credential and a completion service that works.   *)
(***************************************************************************)
\* the numbers of messages of the conversation: fewer than, as many as and
\* more than the history takes
SeedLengths == {HistoryLimit - 2, HistoryLimit, HistoryLimit + 2}

SeededInit ==
    /\ llmService = TRUE
    /\ provider = "healthy"
    /\ storage = "sound"
    /\ foreignKeys = FALSE
    /\ conversations = << [id |-> ServerUUIDs[1], createdAt |-> 0] >>
    /\ \E n \in SeedLengths : messages = Dialogue(n) /\ uuidCount = n
    /\ Quiet

\* the chat turns: a valid message on the conversation of the file, on a new
\* session, or on a conversation made since
SeededBodies ==
    {[message |-> StringValue(Str("q", 1, 1, 2)), sessionId |-> s] :
        s \in {NoSession} \cup {conversations[i].id : i \in DOMAIN conversations}}

SeededRequest ==
    \E t \in Turns : \E body \in SeededBodies : \E faults \in StoreFaults(storage) :
        ChatMessage(t, body, faults)

SeededNext == SeededRequest \/ Settle \/ Tick

SeededSpec == SeededInit /\ [][SeededNext]_vars

(***************************************************************************)
(* The store for itself and under the handlers: the methods of the         *)
(* DatabaseService called with arguments of any kind, between the chat     *)
(* turns of a server on a SQLite build of either kind.                     *)
(***************************************************************************)
StoreInit ==
    /\ llmService \in BOOLEAN
    /\ provider = "healthy"
    /\ storage = "sound"
    /\ foreignKeys \in BOOLEAN
    /\ Boot

\* the conversation ids the store is called with: one that no handler has
\* drawn, and those of the rows
StoreConversationIds == ClientUUIDs \cup {conversations[i].id : i \in DOMAIN conversations}

\* the message ids: a fresh one, and those of the rows
StoreMessageIds == {uuidCount + 1} \cup {messages[i].id : i \in DOMAIN messages}

\* the senders: the two of the schema and one that is neither
StoreSenders == {"user", "ai", "system"}

StoreText == Str("q", 0, 1, 0)

StoreCreateConversation == \E id \in StoreConversationIds : DbCreateConversation(id)

StoreCreateMessage ==
    \E id \in StoreMessageIds : \E c \in StoreConversationIds : \E sender \in StoreSenders :
        DbCreateMessage(id, c, sender, StoreText)

StoreRead ==
    \E c \in StoreConversationIds :
        \/ DbConversationExists(c)
        \/ DbGetMessages(c)
        \/ DbGetConversationHistory(c, HistoryLimit)

\* the chat turns between the calls: a valid message, without a session id
\* or with one the store is called with
StoreBodies ==
    {[message |-> StringValue(Str("q", 1, 1, 2)), sessionId |-> s] :
        s \in {NoSession} \cup StoreConversationIds}

\* one chat turn
StoreRequest ==
    \E body \in StoreBodies : \E faults \in StoreFaults(storage) :
        ChatMessage(1, body, faults)

StoreNext ==
    \/ StoreCreateConversation
    \/ StoreCreateMessage
    \/ StoreRead
    \/ StoreRequest
    \/ Settle
    \/ Tick

StoreSpec == StoreInit /\ [][StoreNext]_vars

(***************************************************************************)
(* Notions the properties use.                                             *)
(***************************************************************************)
\* a message of 1 to 2000 characters that is not blank
ValidMessage(m) ==
    /\ m.type = "string"
    /\ Length(m.str) >= 1 /\ Length(m.str) <= 2000
    /\ Length(Trim(m.str)) >= 1

\* the length of a string message after trimming is between 1 and 2000
TrimmedLengthInRange(m) ==
    /\ m.type = "string"
    /\ Length(Trim(m.str)) >= 1 /\ Length(Trim(m.str)) <= 2000

\* a sessionId field that is absent or of UUID syntax
SessionWellFormed(s) == s = NoSession \/ IsUUID(s)

\* the response says that a POST /chat/message was rejected
ChatRejected == response.endpoint = "chat"

\* the rows a turn has inserted
UserRows(t) ==
    {i \in DOMAIN messages :
        /\ messages[i].id = turns[t].userMessageId
        /\ messages[i].conversationId = turns[t].sessionId
        /\ messages[i].sender = "user"}

AiRows(t) ==
    {i \in DOMAIN messages :
        /\ messages[i].id = turns[t].aiMessageId
        /\ messages[i].conversationId = turns[t].sessionId
        /\ messages[i].sender = "ai"}

\* every row of messages was inserted by exactly one turn
RowsAccounted ==
    \A i \in DOMAIN messages :
        Cardinality({t \in Turns : turns[t].pc # "idle" /\ i \in UserRows(t) \cup AiRows(t)}) = 1

\* turn t answered 200 with a non-empty reply and a UUID sessionId, and has
\* inserted one user row and after it one ai row under that session
AnsweredWithPair(t) ==
    /\ turns[t].status = 200
    /\ Length(turns[t].reply) > 0
    /\ IsUUID(turns[t].sessionId)
    /\ Cardinality(UserRows(t)) = 1
    /\ Cardinality(AiRows(t)) = 1
    /\ \A i \in UserRows(t) : \A j \in AiRows(t) : i < j

\* a step in which a response to a request that starts no turn is sent
Answers(endpoint) == response' # response /\ response'.endpoint = endpoint

StoreUnchanged ==
    /\ conversations' = conversations
    /\ messages' = messages
    /\ \A t \in Turns : turns'[t].llmCalls = turns[t].llmCalls

C2_NoTurnForInvalidLength ==
    /\ \A t \in Turns :
          turns[t].pc # "idle" => TrimmedLengthInRange(turns[t].body.message)
    /\ ChatRejected => response.status = 400

C2_RejectionPersistsNothing == Answers("chat") => StoreUnchanged /\ turns' = turns

C2_InvalidLengthRejected ==
    [] C2_NoTurnForInvalidLength /\ [][C2_RejectionPersistsNothing]_vars

C2_Witness ==
    /\ ChatRejected /\ response.status = 400
    /\ response.body.message.type = "string"
    /\ Length(Trim(response.body.message.str)) > MaxMessageLength
    /\ messages # << >>

(***************************************************************************)
(* C3 as stated: the message rule is applied to the trimmed value, so a    *)
(* string message is accepted exactly when its length after trimming is    *)
(* between 1 and 2000, whatever whitespace surrounds it, and a message     *)
(* that is empty after trimming is rejected with a text other than the     *)
(* one for a missing message.  The code applies .max(2000) before .trim(). *)
(***************************************************************************)
C3_AcceptedIffTrimmedLengthInRange ==
    /\ (ChatRejected /\ SessionWellFormed(response.body.sessionId)
           /\ response.body.message.type = "string")
          => ~TrimmedLengthInRange(response.body.message)
    /\ \A t \in Turns :
          turns[t].pc # "idle" => TrimmedLengthInRange(turns[t].body.message)
    /\ (ChatRejected /\ response.body.message.type = "string"
           /\ Length(Trim(response.body.message.str)) = 0)
          => response.error # "Message must be a string"

(***************************************************************************)
(* C4: a sessionId that is not of UUID syntax makes POST /chat/message     *)
(* (body field) and GET /chat/history/:sessionId (path parameter) answer   *)
(* 400, never 404 or 500, and leaves the store unchanged.                  *)
(***************************************************************************)
C4_MalformedAnswered400 ==
    /\ \A t \in Turns :
          turns[t].pc # "idle" => SessionWellFormed(turns[t].body.sessionId)
    /\ (ChatRejected /\ ~SessionWellFormed(response.body.sessionId))
          => response.status = 400
    /\ (response.endpoint = "history" /\ ~IsUUID(response.body.sessionId))
          => response.status = 400

C4_MalformedChangesNothing ==
    ((Answers("chat") /\ ~SessionWellFormed(response'.body.sessionId))
        \/ (Answers("history") /\ ~IsUUID(response'.body.sessionId)))
      => StoreUnchanged /\ turns' = turns

C5_OneRowPerSession ==
    /\ \A id \in UUIDs :
          Cardinality({i \in DOMAIN conversations : conversations[i].id = id}) <= 1
    /\ \A t \in Turns :
          (turns[t].pc # "idle" /\ IsUUID(turns[t].body.sessionId)) =>
             /\ turns[t].sessionId = turns[t].body.sessionId
             /\ Cardinality({i \in DOMAIN conversations :
                               conversations[i].id = turns[t].body.sessionId}) = 1
             /\ turns[t].created =
                   ~(\E u \in Turns : u < t /\ turns[u].sessionId = turns[t].sessionId)
             /\ turns[t].pc = "done" => turns[t].status = 200

C5_RowsKept ==
    \A i \in DOMAIN conversations :
        i \in DOMAIN conversations' /\ conversations'[i] = conversations[i]

C5_SessionCreationIdempotent == [] C5_OneRowPerSession /\ [][C5_RowsKept]_vars

C5_Witness ==
    \E t, u \in Turns :
        /\ t < u
        /\ turns[t].pc = "done" /\ turns[u].pc = "done"
        /\ IsUUID(turns[t].body.sessionId)
        /\ turns[u].body.sessionId = turns[t].body.sessionId
        /\ ~turns[u].created
        /\ \E i \in DOMAIN conversations :
              /\ conversations[i].id = turns[u].sessionId
              /\ conversations[i].createdAt < now

(***************************************************************************)
(* C6: GET /chat/history/:id answers 404 "Conversation not found" for a    *)
(* valid id without a conversation, and otherwise 200 with exactly the     *)
(* rows persisted for that conversation, each once and unchanged, in       *)
(* ascending timestamp order.                                              *)
(***************************************************************************)
C6_HistoryAnswer ==
    (Answers("history") /\ IsUUID(response'.body.sessionId)) =>
        LET id == response'.body.sessionId
            rows == {i \in DOMAIN messages : messages[i].conversationId = id}
            out == response'.messages
        IN  IF ~(\E i \in DOMAIN conversations : conversations[i].id = id)
            THEN /\ response'.status = 404
                 /\ response'.error = "Conversation not found"
            ELSE /\ response'.status = 200
                 /\ response'.sessionId = id
                 /\ Len(out) = Cardinality(rows)
                 /\ \A i \in rows : \E k \in DOMAIN out : out[k] = messages[i]
                 /\ \A k \in DOMAIN out : \E i \in rows : out[k] = messages[i]
                 /\ \A k, l \in DOMAIN out :
                       k < l => out[k].timestamp <= out[l].timestamp

C6_HistoryReturnsPersistedRows == [][C6_HistoryAnswer]_vars

C6_Witness ==
    /\ response.endpoint = "history" /\ response.status = 200
    /\ Len(response.messages) >= 3
    /\ response.messages[1].timestamp < response.messages[Len(response.messages)].timestamp

(***************************************************************************)
(* C7: for every conversation and every limit n, getConversationHistory    *)
(* returns at most n messages, and they are the last n entries of          *)
(* getMessages in the same order, also when messages share a timestamp.    *)
(***************************************************************************)
LastN(seq, n) ==
    IF n >= Len(seq) THEN seq ELSE SubSeq(seq, Len(seq) - n + 1, Len(seq))

Limits == 0..(2 * MaxTurns + 1)

C7_HistoryIsTailOfMessages ==
    \A id \in UUIDs : \A n \in Limits :
        LET recent == getConversationHistory(messages, id, n)
            all == getMessages(messages, id)
        IN  Len(recent) <= n /\ recent = LastN(all, n)

C7_Witness ==
    \E t \in Turns :
        LET all == getMessages(messages, turns[t].sessionId)
        IN  /\ Len(turns[t].historyArg) >= 3
            /\ Len(all) >= 3
            /\ \E k \in 1..(Len(all) - 1) : all[k].timestamp = all[k + 1].timestamp
            /\ all[1].timestamp < all[Len(all)].timestamp

(***************************************************************************)
(* C8: without a completion credential every valid chat turn is still      *)
(* answered 200 with the fixed unavailability text, persists the user      *)
(* message and an ai message with that text, and calls the completion      *)
(* service not once.                                                       *)
(***************************************************************************)
C8_UnavailableReplyWithoutCredential ==
    ~llmService =>
        \A t \in Turns :
            turns[t].pc # "idle" =>
                /\ turns[t].pc = "done" /\ turns[t].status = 200
                /\ turns[t].reply = Lit("Sorry, the AI service is currently unavailable.", 47)
                /\ turns[t].llmCalls = 0
                /\ Cardinality(UserRows(t)) = 1
                /\ Cardinality(AiRows(t)) = 1
                /\ \A j \in AiRows(t) : messages[j].text = turns[t].reply

C8_Witness ==
    /\ ~llmService
    /\ \E t \in Turns : turns[t].pc = "done" /\ turns[t].aiMessageId # 0

(***************************************************************************)
(* C9: once a chat turn has persisted its user message it reaches          *)
(* Responded: however the reply generator fails, the handler takes a       *)
(* fallback text, persists an ai message with it and answers 200; the      *)
(* user message is never rolled back.                                      *)
(***************************************************************************)
FallbackReplies ==
    { Lit("Sorry, the AI service is currently unavailable.", 47),
      Lit("Sorry, I encountered an error. Please try again.", 48),
      Lit("Invalid API key. Please check your Gemini API configuration.", 60),
      Lit("Rate limit reached. Please try again in a moment.", 49),
      Lit("Request timeout. Please try again.", 34),
      Lit("Sorry, I encountered an error processing your request. Please try again.", 72) }

Responded(t) ==
    /\ turns[t].pc = "done" /\ turns[t].status = 200
    /\ Length(turns[t].reply) > 0
    /\ turns[t].caught => turns[t].reply \in FallbackReplies
    /\ Cardinality(UserRows(t)) = 1
    /\ \E j \in AiRows(t) : messages[j].text = turns[t].reply

C9_MessagesKept ==
    \A i \in DOMAIN messages : i \in DOMAIN messages' /\ messages'[i] = messages[i]

C9_PersistedTurnResponds ==
    /\ \A t \in Turns : (turns[t].userMessageId # 0) ~> Responded(t)
    /\ [][C9_MessagesKept]_vars

C9_Witness ==
    \E t \in Turns : turns[t].caught /\ Responded(t)

(***************************************************************************)
(* C10 as stated: in every reachable state the message log of each         *)
(* conversation, read in its stored order, strictly alternates user, ai,   *)
(* user, ai, ..., also for overlapping turns on the same session.  Two     *)
(* turns that overlap on a session leave user, user, ai, ai.               *)
(***************************************************************************)
Alternates(log) ==
    \A k \in DOMAIN log : log[k].sender = IF k % 2 = 1 THEN "user" ELSE "ai"

C10_LogAlternates ==
    \A id \in UUIDs : Alternates(getMessages(messages, id))

\* turn u was in flight on the session of turn t when t persisted its user message
Overlaps(t, u) ==
    /\ t # u
    /\ turns[t].userMessageId # 0 /\ turns[u].userMessageId # 0
    /\ turns[t].sessionId = turns[u].sessionId
    /\ turns[u].userMessageId < turns[t].userMessageId
    /\ turns[u].pc = "awaiting" \/ turns[t].userMessageId < turns[u].aiMessageId

(***************************************************************************)
(* C10 amended: in every reachable state the message log of each           *)
(* conversation on which no two chat turns have overlapped, read in its    *)
(* stored order, strictly alternates user, ai, user, ai, ...               *)
(***************************************************************************)
C10_LogAlternatesWithoutOverlap ==
    \A id \in UUIDs :
        (\A t, u \in Turns : turns[t].sessionId = id => ~Overlaps(t, u))
            => Alternates(getMessages(messages, id))

C10_Witness ==
    \E id \in UUIDs :
        /\ llmService
        /\ Len(getMessages(messages, id)) >= 4
        /\ \A t, u \in Turns : turns[t].sessionId = id => ~Overlaps(t, u)

(***************************************************************************)
(* C11: every failure of the completion call is classified into exactly    *)
(* one of four kinds (credential, rate limit, timeout, unknown); the reply *)
(* of that turn, in the response and in the persisted ai message, is the   *)
(* one fixed text of that kind and never the provider's own error text.    *)
(***************************************************************************)
\* the texts of the errors the provider rejects with
RawProviderTexts ==
    {o.error.message : o \in {x \in UNION {CompletionOutcomes(c) : c \in ProviderConditions} :
                                 ~x.ok /\ x.error.hasMessage}}

\* the fixed text for the failures a provider in this condition produces
FixedTextOf(condition) ==
    CASE condition = "credential" ->
           Lit("Invalid API key. Please check your Gemini API configuration.", 60)
      [] condition = "throttled" ->
           Lit("Rate limit reached. Please try again in a moment.", 49)
      [] condition = "slow" -> Lit("Request timeout. Please try again.", 34)
      [] OTHER ->
           Lit("Sorry, I encountered an error processing your request. Please try again.", 72)

C11_FailureReplyIsFixedText ==
    \A t \in Turns :
        (turns[t].pc = "done" /\ turns[t].caught) =>
            /\ turns[t].status = 200
            /\ turns[t].reply = FixedTextOf(provider)
            /\ turns[t].reply \notin RawProviderTexts
            /\ \A i \in DOMAIN messages :
                  messages[i].id = turns[t].aiMessageId =>
                      /\ messages[i].text = FixedTextOf(provider)
                      /\ messages[i].text \notin RawProviderTexts

C11_Witness ==
    \E t \in Turns :
        /\ provider = "throttled"
        /\ turns[t].pc = "done" /\ turns[t].caught
        /\ \E i \in DOMAIN messages :
              messages[i].id = turns[t].aiMessageId /\ messages[i].sender = "ai"

(***************************************************************************)
(* C12 as stated: for POST /chat/message no failure at or after the        *)
(* history fetch and reply step, the saving of the ai message included,    *)
(* aborts the response or changes its status, and the only requests        *)
(* answered with another status than 200 are those that fail validation    *)
(* before anything is persisted.  The insert of the ai message stands      *)
(* outside the try block: when it throws, the turn is answered 500.        *)
(***************************************************************************)
C12_OnlyValidationFailuresAreNon200 ==
    /\ \A t \in Turns :
          (turns[t].pc = "done" /\ turns[t].userMessageId # 0) => turns[t].status = 200
    /\ \A t \in Turns : turns[t].pc = "done" => turns[t].status = 200
    /\ ChatRejected =>
          /\ response.status = 400
          /\ ~(ValidMessage(response.body.message)
                 /\ SessionWellFormed(response.body.sessionId))

(***************************************************************************)
(* C18 as stated: a storage failure raised while a request is handled      *)
(* surfaces as a 500 response whose error field is a generic message; the  *)
(* text of the storage engine's error is not sent to the client.  The      *)
(* global error handler sends error.message.                               *)
(***************************************************************************)
\* the texts of the errors the storage engine throws
EngineErrorTexts ==
    { "disk I/O error",
      "UNIQUE constraint failed: conversations.id",
      "UNIQUE constraint failed: messages.id",
      "FOREIGN KEY constraint failed",
      "CHECK constraint failed: sender IN ('user', 'ai')" }

C18_StorageFailureAnswered500Generic ==
    /\ \A t \in Turns :
          turns[t].status = 500 => turns[t].error \notin EngineErrorTexts
    /\ response.status = 500 => response.error \notin EngineErrorTexts
    /\ \A t \in Turns :
          turns[t].status = 200 => turns[t].reply.tag \notin EngineErrorTexts

(***************************************************************************)
(* C13: generateReply never returns an empty or whitespace-only string: a  *)
(* completion whose text is absent, empty or whitespace-only makes it      *)
(* throw, and a reply it returns is the completion text without the        *)
(* whitespace around it.                                                   *)
(***************************************************************************)
C13_ReplyIsTrimmedNonBlankText ==
    call.state = "settled" =>
        LET text == call.outcome.text
            result == call.result
        IN  /\ result.ok =>
                  /\ call.outcome.ok /\ text.type = "string"
                  /\ Length(result.reply) > 0
                  /\ result.reply.len > 0
                  /\ result.reply.lead = 0 /\ result.reply.trail = 0
                  /\ result.reply.tag = text.str.tag /\ result.reply.len = text.str.len
            /\ (call.outcome.ok
                  /\ (text.type # "string" \/ Length(text.str) = 0 \/ text.str.len = 0))
                  => ~result.ok
            /\ (call.outcome.ok /\ text.type = "string" /\ text.str.len > 0) => result.ok

C13_Witness ==
    /\ call.state = "settled" /\ call.result.ok
    /\ call.outcome.text.str.lead = 2 /\ call.outcome.text.str.trail = 1
    /\ call.result.reply = Lit("answer", 6)

(***************************************************************************)
(* Notions of the properties of the client.                                *)
(***************************************************************************)
\* the step is the client handling the event of this name
Handles(name) == event' # event /\ event'.name = name

\* the list without the entries of an id
RECURSIVE Without(_, _)
Without(list, id) ==
    IF list = << >> THEN << >>
    ELSE IF Head(list).id = id THEN Without(Tail(list), id)
    ELSE << Head(list) >> \o Without(Tail(list), id)

\* the entries of a are entries of b, in the same order
RECURSIVE StillThere(_, _)
StillThere(a, b) ==
    IF a = << >> THEN TRUE
    ELSE IF b = << >> THEN FALSE
    ELSE IF Head(a) = Head(b) THEN StillThere(Tail(a), Tail(b))
    ELSE StillThere(a, Tail(b))

\* a submit appends the user message to the list
C14_SubmitAppends ==
    Handles("submit") =>
        \A send \in sends' \ sends :
            LET n == Len(ui'.messages)
            IN  /\ n = Len(ui.messages) + 1
                /\ SubSeq(ui'.messages, 1, n - 1) = ui.messages
                /\ ui'.messages[n].id = send.temp
                /\ ui'.messages[n].sender = "user"
                /\ ui'.messages[n].text.tag = ui.inputValue.tag
                /\ ui'.messages[n].text.len = ui.inputValue.len

\* on success the optimistic entry is gone and one user message and one ai
\* message stand at the end of the list
C14_SuccessReplaces ==
    Handles("sendOk") =>
        \A send \in sends \ sends' :
            LET n == Len(ui'.messages)
            IN  /\ n >= 2
                /\ SubSeq(ui'.messages, 1, n - 2) = Without(ui.messages, send.temp)
                /\ ui'.messages[n - 1].sender = "user"
                /\ ui'.messages[n - 1].text = send.trimmedMessage
                /\ ui'.messages[n - 1].id # send.temp
                /\ ui'.messages[n].sender = "ai"
                /\ ui'.messages[n].text = turns[send.turn].reply

\* on failure the optimistic entry is gone and the error text is shown
C14_FailureRemoves ==
    Handles("sendFail") =>
        \A send \in sends \ sends' :
            /\ ui'.messages = Without(ui.messages, send.temp)
            /\ ui'.error \in {"Cannot connect to server", turns[send.turn].error}
            /\ ui'.error # ""

(***************************************************************************)
(* C14 as stated: a submit appends the user message optimistically; when   *)
(* the chat-turn call succeeds the optimistic entry is replaced by one     *)
(* user message and one ai message at the end of the list; when it fails   *)
(* the optimistic entry is removed, the error text is shown, and every     *)
(* message that was in the list before the submit is still there in the    *)
(* same order.  New chat, or the history arriving, while the call is in    *)
(* flight replaces the list, and the failure does not bring it back.       *)
(***************************************************************************)
C14_FailureKeepsListOfSubmit ==
    Handles("sendFail") =>
        \A send \in sends \ sends' : StillThere(send.before, ui'.messages)

C14_OptimisticAppendRolledBack ==
    [][/\ C14_SubmitAppends
       /\ C14_SuccessReplaces
       /\ C14_FailureRemoves
       /\ C14_FailureKeepsListOfSubmit]_vars

(***************************************************************************)
(* C14 amended: as stated, but on failure every other message that is in   *)
(* the list when the call fails is kept in order, and the messages that    *)
(* were in the list before the submit are still there in the same order    *)
(* unless New chat or the arriving history has replaced the list while     *)
(* the call was in flight.                                                 *)
(***************************************************************************)
C14_FailureKeepsListUnlessReplaced ==
    Handles("sendFail") =>
        \A send \in sends \ sends' :
            ~send.replaced =>
                /\ StillThere(send.before, ui'.messages)
                /\ ui'.messages = send.before

C14_OptimisticAppendRolledBackUnlessReplaced ==
    [][/\ C14_SubmitAppends
       /\ C14_SuccessReplaces
       /\ C14_FailureRemoves
       /\ C14_FailureKeepsListUnlessReplaced]_vars

C14_Witness ==
    /\ event.name = "sendFail"
    /\ Len(ui.messages) >= 2
    /\ ui.error = "Cannot connect to server"
    /\ sends = {}
    /\ ~page.cleared

(***************************************************************************)
(* C15: New chat clears the message list, the input buffer, the error      *)
(* banner, the session id in memory and the stored session id, and sends   *)
(* no request to the server.                                               *)
(***************************************************************************)
C15_NewChatStep ==
    Handles("newChat") =>
        /\ ui'.messages = << >>
        /\ ui'.inputValue = Str("", 0, 0, 0)
        /\ ui'.error = ""
        /\ ui'.sessionId = NoSession
        /\ localStorage' = NoSession
        /\ requests' = requests
        /\ historyLoad' = historyLoad
        /\ server' = server

C15_NewChatClearsLocalState == [][C15_NewChatStep]_vars

C15_Witness ==
    /\ event.name = "newChat"
    /\ Len(requests) = 2 /\ requests[2].sessionId # NoSession
    /\ localStorage = NoSession

(***************************************************************************)
(* C16 as stated: after a reload with a session id in the storage the      *)
(* client continues that conversation: the next chat-turn request carries  *)
(* the stored id and the stored id is not replaced by another one,         *)
(* whatever the outcome and the timing of the history load.  A submit      *)
(* before the history has arrived, or after its load has failed, carries   *)
(* no session id, and the id of the response overwrites the stored one.    *)
(***************************************************************************)
\* the page was loaded with a stored id and New chat was not used on it
Continuing == page.stored # NoSession /\ page.stored # "" /\ ~page.cleared

C16_StoredIdKept == Continuing => localStorage = page.stored

C16_NextRequestCarriesStoredId ==
    (Handles("submit") /\ Continuing /\ ~page.submitted) =>
        /\ Len(requests') = Len(requests) + 1
        /\ requests'[Len(requests')].sessionId = page.stored

C16_ReloadContinuesConversation ==
    [] C16_StoredIdKept /\ [][C16_NextRequestCarriesStoredId]_vars

(***************************************************************************)
(* C17 as stated: a chat-turn request that carries an invalid session id   *)
(* is not rejected: its turn is processed under a fresh session and        *)
(* creates a new conversation.  The schema rejects a sessionId that is     *)
(* not a UUID with 400 before the session id is resolved.                  *)
(***************************************************************************)
C17_InvalidSessionIdStartsNewConversation ==
    /\ (ChatRejected /\ ValidMessage(response.body.message))
          => SessionWellFormed(response.body.sessionId)
    /\ \A t \in Turns :
          (turns[t].pc # "idle" /\ ~SessionWellFormed(turns[t].body.sessionId)) =>
             /\ turns[t].created
             /\ turns[t].sessionId # turns[t].body.sessionId
             /\ \E i \in DOMAIN conversations : conversations[i].id = turns[t].sessionId

(***************************************************************************)
(* Notions of the properties of the store.                                 *)
(***************************************************************************)
\* the step is a call of this method of db made for itself
DbCalled(op) == dbCall' # dbCall /\ dbCall'.op = op

\* a conversation of this id is in the table
HasConversation(id) == \E i \in DOMAIN conversations : conversations[i].id = id

(***************************************************************************)
(* C19 as stated: createMessage called with a conversationId of no         *)
(* conversation fails with a foreign-key violation and inserts no row, so  *)
(* that in every reachable state every message references an existing      *)
(* conversation.  database.ts declares the FOREIGN KEY but never switches   *)
(* its enforcement on; on a build of SQLite that does not enforce foreign   *)
(* keys by default the row is inserted.                                    *)
(***************************************************************************)
C19_OrphanInsertFails ==
    (/\ DbCalled("createMessage")
     /\ ~HasConversation(dbCall'.conversationId)
     /\ dbCall'.sender \in {"user", "ai"}
     /\ \A i \in DOMAIN messages : messages[i].id # dbCall'.id)
      => /\ ~dbCall'.ok
         /\ dbCall'.error = "FOREIGN KEY constraint failed"
         /\ messages' = messages

C19_MessagesReferenceConversations ==
    \A i \in DOMAIN messages : HasConversation(messages[i].conversationId)

C19_ForeignKeyEnforced ==
    [] C19_MessagesReferenceConversations /\ [][C19_OrphanInsertFails]_vars

(***************************************************************************)
(* C20: the store is append-only.  Across the calls of the store's         *)
(* methods and the chat turns, a conversation row once created stays, with *)
(* its createdAt; a message row once created stays, with its id,           *)
(* conversationId, sender, text and timestamp; and the sender of every     *)
(* message is user or ai.                                                  *)
(***************************************************************************)
C20_RowsNeverChange ==
    /\ \A i \in DOMAIN conversations :
          /\ i \in DOMAIN conversations'
          /\ conversations'[i].id = conversations[i].id
          /\ conversations'[i].createdAt = conversations[i].createdAt
    /\ \A i \in DOMAIN messages :
          /\ i \in DOMAIN messages'
          /\ messages'[i].id = messages[i].id
          /\ messages'[i].conversationId = messages[i].conversationId
          /\ messages'[i].sender = messages[i].sender
          /\ messages'[i].text = messages[i].text
          /\ messages'[i].timestamp = messages[i].timestamp

C20_SendersAreUserOrAi ==
    \A i \in DOMAIN messages : messages[i].sender \in {"user", "ai"}

C20_StoreIsAppendOnly ==
    [] C20_SendersAreUserOrAi /\ [][C20_RowsNeverChange]_vars

C20_Witness ==
    /\ dbCall.op = "createMessage" /\ ~dbCall.ok /\ dbCall.sender = "system"
    /\ Len(messages) >= 3
    /\ Len(conversations) >= 2
    /\ turns[1].pc = "done"
    /\ now = MaxTime

C22_HistoryHoldsOwnMessageAndAtMostTen ==
    \A t \in Turns :
        turns[t].llmCalls > 0 =>
            /\ Len(turns[t].historyArg) <= 10
            /\ \A i \in DOMAIN turns[t].historyArg :
                  turns[t].historyArg[i].conversationId = turns[t].sessionId
            /\ \E i \in DOMAIN turns[t].historyArg :
                  /\ turns[t].historyArg[i].id = turns[t].userMessageId
                  /\ turns[t].historyArg[i].sender = "user"
                  /\ turns[t].historyArg[i].text = turns[t].message

C22_Witness ==
    /\ turns[1].pc = "awaiting" /\ turns[2].pc = "awaiting"
    /\ turns[1].sessionId = turns[2].sessionId
    /\ Len(turns[2].historyArg) = 10
    /\ Cardinality({i \in DOMAIN messages :
                      messages[i].conversationId = turns[2].sessionId}) > 10

(***************************************************************************)
(* C23: each chat turn makes at most one call to the completion service;   *)
(* when the call fails the turn makes no second call and goes on with the  *)
(* fallback reply.                                                         *)
(***************************************************************************)
C23_AtMostOneCall ==
    \A t \in Turns :
        /\ turns[t].llmCalls <= 1
        /\ turns[t].pc = "awaiting" => turns[t].llmCalls = 1
        /\ ~llmService => turns[t].llmCalls = 0

C23_SettledCallEndsTurn ==
    \A t \in Turns :
        (turns[t].pc = "awaiting" /\ turns'[t] # turns[t]) =>
            /\ turns'[t].pc = "done"
            /\ turns'[t].llmCalls = turns[t].llmCalls
            /\ turns'[t].caught =>
                  /\ turns'[t].status = 200
                  /\ turns'[t].reply \in
                        {FixedTextOf(c) : c \in ProviderConditions \ {"healthy"}}

C23_OneCompletionCallNoRetry ==
    [] C23_AtMostOneCall /\ [][C23_SettledCallEndsTurn]_vars

C23_Witness ==
    \E t \in Turns :
        /\ provider = "slow"
        /\ turns[t].pc = "done" /\ turns[t].caught /\ turns[t].llmCalls = 1
        /\ turns[t].reply = FixedTextOf("slow")

(***************************************************************************)
(* Notions of the properties of sessions.                                  *)
(***************************************************************************)
\* the log of a session: its messages in insertion order
LogOf(msgs, session) == SelectSeq(msgs, LAMBDA m : m.conversationId = session)

\* the conversation rows of a session
ConversationOf(convs, session) == SelectSeq(convs, LAMBDA c : c.id = session)

\* the last n entries of a log
LastOf(log, n) ==
    IF Len(log) <= n THEN log ELSE [i \in 1..n |-> log[Len(log) - n + i]]

(***************************************************************************)
(* C24: chat turns on different sessions are independent.  A step of a     *)
(* turn on session A, at any interleaving with the turns on a session B,   *)
(* adds no row to B and changes no row of B; the history a turn on B       *)
(* passes to the reply generator is made of the log of B alone, and its    *)
(* reply of the outcome of its own completion call alone, as if the turns  *)
(* on A had not happened.                                                  *)
(***************************************************************************)
C24_OtherSessionsUntouched ==
    \A t \in Turns :
        turns'[t] # turns[t] =>
            \A B \in UUIDs \ {turns'[t].sessionId} :
                /\ LogOf(messages', B) = LogOf(messages, B)
                /\ ConversationOf(conversations', B) = ConversationOf(conversations, B)

C24_HistoryAndReplyOfOwnSession ==
    \A t \in Turns :
        /\ (turns[t].pc = "idle" /\ turns'[t].pc # "idle" /\ turns'[t].llmCalls > 0) =>
              turns'[t].historyArg = LastOf(LogOf(messages', turns'[t].sessionId), 10)
        /\ (turns[t].pc = "awaiting" /\ turns'[t].pc = "done") =>
              /\ turns'[t].historyArg = turns[t].historyArg
              /\ \E o \in CompletionOutcomes(provider) :
                    turns'[t].reply = ObtainReply(generateReply(o)).reply

C24_SessionsIndependent ==
    [][C24_OtherSessionsUntouched /\ C24_HistoryAndReplyOfOwnSession]_vars

C24_Witness ==
    /\ turns[1].pc = "awaiting" /\ turns[2].pc = "done"
    /\ turns[1].sessionId # turns[2].sessionId
    /\ Len(LogOf(messages, turns[1].sessionId)) > 10
    /\ Len(LogOf(messages, turns[2].sessionId)) = 2

(***************************************************************************)
(* C25: when chat turns on the same session overlap, the handlers          *)
(* interleaving only where they await the completion, the existence check  *)
(* and the creation of the conversation run with no other handler in       *)
(* between: createConversation is never invoked for an id that exists, no  *)
(* duplicate-key failure arises and no turn is answered 500 for its        *)
(* session.                                                                *)
(***************************************************************************)
C25_NoDuplicateKeyFailure ==
    /\ \A t \in Turns :
          /\ turns[t].status # 500
          /\ turns[t].error # "UNIQUE constraint failed: conversations.id"
    /\ \A i, j \in DOMAIN conversations :
          conversations[i].id = conversations[j].id => i = j

C25_CreatedOnlyWhenAbsent ==
    \A t \in Turns :
        (turns[t].pc = "idle" /\ turns'[t].pc # "idle") =>
            LET present == \E i \in DOMAIN conversations :
                               conversations[i].id = turns'[t].sessionId
            IN  /\ turns'[t].created = ~present
                /\ present => conversations' = conversations
                /\ ~present =>
                      /\ Len(conversations') = Len(conversations) + 1
                      /\ conversations'[Len(conversations')].id = turns'[t].sessionId
                      /\ SubSeq(conversations', 1, Len(conversations)) = conversations

C25_SessionResolutionAtomic ==
    [] C25_NoDuplicateKeyFailure /\ [][C25_CreatedOnlyWhenAbsent]_vars

C25_Witness ==
    /\ turns[1].pc = "awaiting" /\ turns[2].pc = "awaiting"
    /\ turns[1].sessionId = turns[2].sessionId
    /\ turns[1].sessionId \in ClientUUIDs
    /\ turns[1].created /\ ~turns[2].created
    /\ Len(conversations) = 1

(***************************************************************************)
(* C26 as stated: for any interleaving of chat turns on one session each   *)
(* turn's user message is inserted before its ai message, so that in       *)
(* every reachable state every prefix of a conversation's log holds no     *)
(* more ai than user messages, and as many of each whenever no turn on     *)
(* the session is in flight.  When the insert of the ai message throws,    *)
(* the turn ends with its user message alone.                              *)
(***************************************************************************)
\* the number of messages of a sender among the first n of a log
CountOf(log, n, sender) == Cardinality({i \in 1..n : log[i].sender = sender})

C26_UserBeforeAi ==
    \A t \in Turns :
        turns[t].aiMessageId # 0 =>
            \E i, j \in DOMAIN messages :
                /\ i < j
                /\ messages[i].id = turns[t].userMessageId /\ messages[i].sender = "user"
                /\ messages[j].id = turns[t].aiMessageId /\ messages[j].sender = "ai"

C26_AiNeverAheadOfUser ==
    /\ C26_UserBeforeAi
    /\ \A s \in UUIDs :
          LET log == LogOf(messages, s)
          IN  /\ \A n \in 0..Len(log) : CountOf(log, n, "ai") <= CountOf(log, n, "user")
              /\ (\A t \in Turns : ~(turns[t].pc = "awaiting" /\ turns[t].sessionId = s))
                    => CountOf(log, Len(log), "ai") = CountOf(log, Len(log), "user")

(***************************************************************************)
(* C27 as stated: in every 200 response of POST /chat/message the reply    *)
(* is the trimmed completion text or one of the fixed strings: the         *)
(* unavailability string, the four messages of the classified failures,    *)
(* the handler's default apology; also when the read of the history in     *)
(* the reply step fails.  That read stands inside the try block, so the    *)
(* message of the store's error becomes the reply.                         *)
(***************************************************************************)
\* the fixed strings a reply may be
SafeReplies ==
    {Lit("Sorry, the AI service is currently unavailable.", 47),
     Lit("Sorry, I encountered an error. Please try again.", 48)}
        \cup {FixedTextOf(c) : c \in ProviderConditions \ {"healthy"}}

\* the completion texts of the provider, trimmed
TrimmedCompletions ==
    {[tag |-> o.text.str.tag, lead |-> 0, len |-> o.text.str.len, trail |-> 0] :
        o \in {x \in CompletionOutcomes(provider) :
                  x.ok /\ x.text.type = "string" /\ x.text.str.len > 0}}

C27_ReplyIsCompletionOrFixedString ==
    \A t \in Turns :
        (turns[t].pc = "done" /\ turns[t].status = 200) =>
            turns[t].reply \in SafeReplies \cup TrimmedCompletions

(***************************************************************************)
(* C28: in every completed chat turn the reply of the response is the      *)
(* text of the ai message the turn persisted, the text of the persisted    *)
(* user message is the request's message trimmed, and both messages have   *)
(* the sessionId of the response as conversationId.                        *)
(***************************************************************************)
C28_ResponseMatchesPersistedMessages ==
    \A t \in Turns :
        (turns[t].pc = "done" /\ turns[t].status = 200) =>
            /\ turns[t].sessionId \in UUIDs
            /\ turns[t].body.sessionId # NoSession
                  => turns[t].sessionId = turns[t].body.sessionId
            /\ \E i \in DOMAIN messages :
                  /\ messages[i].id = turns[t].userMessageId
                  /\ messages[i].sender = "user"
                  /\ messages[i].conversationId = turns[t].sessionId
                  /\ messages[i].text.tag = turns[t].body.message.str.tag
                  /\ messages[i].text.len = turns[t].body.message.str.len
                  /\ messages[i].text.lead = 0 /\ messages[i].text.trail = 0
            /\ \E j \in DOMAIN messages :
                  /\ messages[j].id = turns[t].aiMessageId
                  /\ messages[j].sender = "ai"
                  /\ messages[j].conversationId = turns[t].sessionId
                  /\ messages[j].text = turns[t].reply

C28_Witness ==
    \E t \in Turns :
        /\ turns[t].pc = "done" /\ turns[t].status = 200
        /\ turns[t].body.message.str.lead > 0 /\ turns[t].body.message.str.trail > 0
        /\ turns[t].reply.tag = "answer"
        /\ turns[t].body.sessionId \in ClientUUIDs

(***************************************************************************)
(* C29: the client has at most one chat-turn request in flight at any      *)
(* time: while the loading flag is set no submit starts, and after every   *)
(* submit that issued a request, whether the request succeeds or fails,    *)
(* the loading flag and the typing flag are eventually both cleared.       *)
(***************************************************************************)
C29_AtMostOneInFlight ==
    /\ Cardinality(sends) <= 1
    /\ sends # {} => ui.isLoading

C29_NoSubmitWhileLoading ==
    (Handles("submit") /\ requests' # requests) =>
        /\ ~ui.isLoading
        /\ sends = {}
        /\ ui'.isLoading /\ ui'.isTyping

C29_FlagsCleared == ~ui.isLoading /\ ~ui.isTyping

C29_OneRequestInFlightFlagsCleared ==
    /\ [] C29_AtMostOneInFlight
    /\ [][C29_NoSubmitWhileLoading]_vars
    /\ (ui.isLoading \/ ui.isTyping) ~> C29_FlagsCleared

C29_Witness ==
    /\ event.name = "sendOk"
    /\ Len(requests) = 2
    /\ sends = {}
    /\ C29_FlagsCleared

(***************************************************************************)
(* C30 as stated: after New chat and until the next submit the message     *)
(* list stays empty and the session id in memory and the stored one stay   *)
(* absent, also when New chat is used while a chat-turn request is in      *)
(* flight and its response or failure arrives afterwards.  The run of      *)
(* handleSendMessage that was waiting appends its two messages to the      *)
(* cleared list and, when it was sent without a session id, stores the     *)
(* session id of the response.                                             *)
(***************************************************************************)
C30_NewChatStaysCleared ==
    (page.cleared /\ ~page.submitted) =>
        /\ ui.messages = << >>
        /\ ui.sessionId = NoSession
        /\ localStorage = NoSession

====
